---- MODULE Spec2Model ----
(***************************************************************************)
(* ReaderWriterLock of src/lib/readerwriterlock.ts as a state machine.     *)
(*                                                                         *)
(* Every request (read, upgradeableRead, write, upgrade) gets the next id; *)
(* the id names the request's promise, its queue node, its cancellation    *)
(* token and, once granted, its handle.  One action is one synchronous     *)
(* call of the single-threaded runtime, run to completion.                 *)
(*                                                                         *)
(* AsyncQueue of src/lib/queue.ts is a second state machine over its own   *)
(* variables (QSpec); the k-th get() returns promise k.                    *)
(***************************************************************************)
EXTENDS Integers, Sequences, FiniteSets, TLC

\* Number of requests and token cancellations a behaviour may contain.
MaxOps == 5

Ids == 1 .. MaxOps
NoHandle == 0
Tokens == {"live", "cancelled"}

\* Number of values (initial or put) and get() calls an AsyncQueue
\* behaviour may contain, and the longest iterable given to its constructor.
MaxQueueOps == 6
MaxInit == 2

\* The values put on the queue; a promise not yet settled holds Unsettled.
Values == {1, 2}
Unsettled == 0

VARIABLES
    count,          \* _count
    upgradeable,    \* _upgradeable: id of the current upgradeable handle, or NoHandle
    upgraded,       \* _upgraded: id of the current upgrade handle, or NoHandle
    readers,        \* _readers: sequence of parked request ids
    upgradeables,   \* _upgradeables
    upgrades,       \* _upgrades
    writers,        \* _writers
    deferred,       \* state of each request's promise
    registered,     \* whether the request's cancellation registration is active
    released,       \* the `released` flag closed over by a read or write handle
    tokenCancelled, \* _token.cancellationRequested of each request's token
    role,           \* which operation created the request
    owner,          \* for an upgrade request: the upgradeable handle it was made on
    relCalled,      \* history: release() has been called on the handle
    nextId,         \* id of the next request
    cancels,        \* number of tokens cancelled so far
    last,           \* the call that ran last and how it ended
    available,      \* _available: whether defined, and the values of its promises
    pending,        \* _pending: whether defined, and the promises its resolvers settle
    puts,           \* history: the values given to the constructor and to put, in order
    results         \* the promise returned by each get(), in call order

lockvars == <<count, upgradeable, upgraded, readers, upgradeables, upgrades, writers>>
rwvars == <<count, upgradeable, upgraded, readers, upgradeables, upgrades, writers,
            deferred, registered, released, tokenCancelled, role, owner, relCalled,
            nextId, cancels, last>>
qvars == <<available, pending, puts, results>>
vars == <<rwvars, qvars>>

\* The part of the state the lock's private methods read and write.
Lock ==
    [count |-> count, upgradeable |-> upgradeable, upgraded |-> upgraded,
     readers |-> readers, upgradeables |-> upgradeables, upgrades |-> upgrades,
     writers |-> writers, deferred |-> deferred, registered |-> registered]

SetLock(s) ==
    /\ count' = s.count
    /\ upgradeable' = s.upgradeable
    /\ upgraded' = s.upgraded
    /\ readers' = s.readers
    /\ upgradeables' = s.upgradeables
    /\ upgrades' = s.upgrades
    /\ writers' = s.writers
    /\ deferred' = s.deferred
    /\ registered' = s.registered

----------------------------------------------------------------------------
\* Promise and linked-list primitives.

\* new Promise(...): the promise of request r starts pending.
NewPromise(s, r) == [s EXCEPT !.deferred[r] = "pending"]

\* resolve / reject settle a promise once; a settled promise ignores them.
Resolve(s, r) == [s EXCEPT !.deferred[r] = IF @ = "pending" THEN "resolved" ELSE @]
Reject(s, r) == [s EXCEPT !.deferred[r] = IF @ = "pending" THEN "rejected" ELSE @]

Unregister(s, r) == [s EXCEPT !.registered[r] = FALSE]

InSeq(q, r) == \E i \in 1 .. Len(q) : q[i] = r

\* LinkedList.deleteNode(node)
DeleteNode(q, r) == SelectSeq(q, LAMBDA x : x # r)

----------------------------------------------------------------------------
\* Admission predicates.

\* A read admission that forgets the parked writers.
canTakeReadLock_IgnoringWriters(s) ==
    /\ s.count >= 0
    /\ Len(s.upgrades) = 0

canTakeReadLock(s) ==
    /\ s.count >= 0
    /\ Len(s.writers) = 0
    /\ Len(s.upgrades) = 0
    /\ Len(s.writers) = 0

canTakeUpgradeableReadLock(s) == s.count >= 0 /\ s.upgradeable = NoHandle

canTakeUpgradeLock(s) ==
    /\ s.count = 1
    /\ s.upgradeable # NoHandle
    /\ s.upgraded = NoHandle

canTakeWriteLock(s) == s.count = 0

----------------------------------------------------------------------------
\* Taking a lock: the handle of request r is named r.

takeReadLock(s, r) == [s EXCEPT !.count = @ + 1]

takeUpgradeableReadLock(s, r) == [s EXCEPT !.count = @ + 1, !.upgradeable = r]

takeUpgradeLock(s, r) == [s EXCEPT !.upgraded = r, !.count = -1]

takeWriteLock(s, r) == [s EXCEPT !.count = -1]

\* The closures pushed on the four queues.
ReadWaiter(s, r) ==
    LET u == Unregister(s, r)
    IN  IF tokenCancelled[r] THEN Reject(u, r) ELSE Resolve(takeReadLock(u, r), r)

UpgradeableWaiter(s, r) ==
    LET u == Unregister(s, r)
    IN  IF tokenCancelled[r] THEN Reject(u, r)
        ELSE Resolve(takeUpgradeableReadLock(u, r), r)

UpgradeWaiter(s, r) ==
    LET u == Unregister(s, r)
    IN  IF tokenCancelled[r] THEN Reject(u, r) ELSE Resolve(takeUpgradeLock(u, r), r)

WriteWaiter(s, r) ==
    LET u == Unregister(s, r)
    IN  IF tokenCancelled[r] THEN Reject(u, r) ELSE Resolve(takeWriteLock(u, r), r)

----------------------------------------------------------------------------
\* Scheduling.

\* A writer step that never wakes the head writer.
processWriteLockRequest_Never(s) == [woke |-> FALSE, s |-> s]

processWriteLockRequest(s) ==
    IF canTakeWriteLock(s) /\ Len(s.writers) > 0
    THEN [woke |-> TRUE,
          s |-> WriteWaiter([s EXCEPT !.writers = Tail(@)], Head(s.writers))]
    ELSE [woke |-> FALSE, s |-> s]

processUpgradeRequest(s) ==
    IF canTakeUpgradeLock(s) /\ Len(s.upgrades) > 0
    THEN [woke |-> TRUE,
          s |-> UpgradeWaiter([s EXCEPT !.upgrades = Tail(@)], Head(s.upgrades))]
    ELSE [woke |-> FALSE, s |-> s]

processUpgradeableReadLockRequest(s) ==
    IF canTakeUpgradeableReadLock(s) /\ Len(s.upgradeables) > 0
    THEN UpgradeableWaiter([s EXCEPT !.upgradeables = Tail(@)], Head(s.upgradeables))
    ELSE s

\* this._readers.forEach(resolve => resolve()): the nodes stay on the list
\* while the closures run.
RECURSIVE ForEachReader(_, _)
ForEachReader(s, q) ==
    IF q = <<>> THEN s ELSE ForEachReader(ReadWaiter(s, Head(q)), Tail(q))

processReadLockRequests(s) ==
    IF canTakeReadLock(s)
    THEN [ForEachReader(s, s.readers) EXCEPT !.readers = <<>>]
    ELSE s

\* A re-schedule that forgets the writers' turn.
processLockRequests_SkipWriters(s) ==
    LET u == processUpgradeRequest(s)
    IN  IF u.woke THEN u.s
        ELSE processReadLockRequests(processUpgradeableReadLockRequest(u.s))

\* A re-schedule that serves the upgradeable reader and the readers before
\* the writer and the upgrade.
processLockRequests_ReadersFirst(s) ==
    LET t == processReadLockRequests(processUpgradeableReadLockRequest(s))
        w == processWriteLockRequest(t)
    IN  IF w.woke THEN w.s ELSE processUpgradeRequest(w.s).s

processLockRequests(s) ==
    LET w == processWriteLockRequest(s)
    IN  IF w.woke THEN w.s
        ELSE LET u == processUpgradeRequest(w.s)
             IN  IF u.woke THEN u.s
                 ELSE processReadLockRequests(processUpgradeableReadLockRequest(u.s))

----------------------------------------------------------------------------
\* Releasing.

releaseReadLock(s) == processLockRequests([s EXCEPT !.count = @ - 1])

\* An upgradeable release that leaves _upgraded set.
releaseUpgradeableReadLock_KeepUpgraded(s) ==
    processLockRequests(
        [s EXCEPT !.count = IF @ = -1 THEN 0 ELSE @ - 1,
                  !.upgradeable = NoHandle])

releaseUpgradeableReadLock(s) ==
    processLockRequests(
        [s EXCEPT !.count = IF @ = -1 THEN 0 ELSE @ - 1,
                  !.upgraded = NoHandle,
                  !.upgradeable = NoHandle])

\* An upgrade release that resets the census to 0 instead of 1.
releaseUpgradeLock_CountZero(s) ==
    processLockRequests([s EXCEPT !.upgraded = NoHandle, !.count = 0])

releaseUpgradeLock(s) ==
    processLockRequests([s EXCEPT !.upgraded = NoHandle, !.count = 1])

releaseWriteLock(s) == processLockRequests([s EXCEPT !.count = 0])

\* The guards of the handles' release and upgrade closures.

\* A read or write handle that never looks at its released flag.
HandleReleased_Never(h) == FALSE

HandleReleased(h) == released[h]

\* An upgradeable handle that checks only that some upgradeable is current.
IsCurrentUpgradeable_AnyHolder(s, h) == s.upgradeable # NoHandle

IsCurrentUpgradeable(s, h) == s.upgradeable = h

\* An upgrade handle that releases without checking that it is current.
IsCurrentUpgraded_NoCheck(s, h) == TRUE

IsCurrentUpgraded(s, h) == s.upgraded = h

----------------------------------------------------------------------------
\* A cancellation callback that rejects without unlinking the node.
CancellationCallback_NoDelete(s, r) == Reject(s, r)

\* Cancellation callback registered by a parked request: if the node is
\* still on its list, delete it and reject.
CancellationCallback(s, r) ==
    IF role[r] = "read" /\ InSeq(s.readers, r)
    THEN Reject([s EXCEPT !.readers = DeleteNode(@, r)], r)
    ELSE IF role[r] = "upgradeable" /\ InSeq(s.upgradeables, r)
    THEN Reject([s EXCEPT !.upgradeables = DeleteNode(@, r)], r)
    ELSE IF role[r] = "upgrade" /\ InSeq(s.upgrades, r)
    THEN Reject([s EXCEPT !.upgrades = DeleteNode(@, r)], r)
    ELSE IF role[r] = "write" /\ InSeq(s.writers, r)
    THEN Reject([s EXCEPT !.writers = DeleteNode(@, r)], r)
    ELSE s

----------------------------------------------------------------------------
\* AsyncQueue.

\* The part of the state the queue's methods read and write.
Queue == [available |-> available, pending |-> pending, results |-> results]

SetQueue(q) ==
    /\ available' = q.available
    /\ pending' = q.pending
    /\ results' = q.results

\* An array field: undefined, or an array of items.
Undefined == [defined |-> FALSE, items |-> <<>>]
Array(items) == [defined |-> TRUE, items |-> items]

\* The constructor's argument: missing, or an iterable of values.
Missing == <<"missing">>
Iterables ==
    {Missing} \cup
    {<<"iterable", it>> : it \in UNION {[1 .. n -> Values] : n \in 0 .. MaxInit}}

\* new AsyncQueue(iterable)
AsyncQueue(iterable) ==
    /\ available = IF iterable = Missing THEN Undefined ELSE Array(iterable[2])
    /\ pending = Undefined
    /\ puts = IF iterable = Missing THEN <<>> ELSE iterable[2]
    /\ results = <<>>

\* get size()
size(q) ==
    IF q.available.defined /\ Len(q.available.items) > 0
    THEN Len(q.available.items)
    ELSE IF q.pending.defined /\ Len(q.pending.items) > 0
         THEN -Len(q.pending.items)
         ELSE 0

\* A put that buffers the value without looking for a parked consumer.
put_IgnoringPending(q, value) ==
    [q EXCEPT !.available = Array(Append(@.items, value))]

\* put(value)
put(q, value) ==
    IF q.pending.defined /\ q.pending.items # <<>>
    THEN [q EXCEPT !.pending = Array(Tail(@.items)),
                   !.results[Head(q.pending.items)] = value]
    ELSE [q EXCEPT !.available = Array(Append(@.items, value))]

\* A get that takes the newest buffered value (pop instead of shift).
get_Pop(q) ==
    IF q.available.defined /\ q.available.items # <<>>
    THEN [q EXCEPT !.available = Array(SubSeq(@.items, 1, Len(@.items) - 1)),
                   !.results = Append(@, q.available.items[Len(q.available.items)])]
    ELSE [q EXCEPT !.pending = Array(Append(@.items, Len(q.results) + 1)),
                   !.results = Append(@, Unsettled)]

\* get(): the promise it returns is appended to results.
get(q) ==
    IF q.available.defined /\ q.available.items # <<>>
    THEN [q EXCEPT !.available = Array(Tail(@.items)),
                   !.results = Append(@, Head(q.available.items))]
    ELSE [q EXCEPT !.pending = Array(Append(@.items, Len(q.results) + 1)),
                   !.results = Append(@, Unsettled)]

----------------------------------------------------------------------------
\* A freshly constructed lock, no request made.
ReaderWriterLockInit ==
    /\ count = 0
    /\ upgradeable = NoHandle
    /\ upgraded = NoHandle
    /\ readers = <<>>
    /\ upgradeables = <<>>
    /\ upgrades = <<>>
    /\ writers = <<>>
    /\ deferred = [i \in Ids |-> "none"]
    /\ registered = [i \in Ids |-> FALSE]
    /\ released = [i \in Ids |-> FALSE]
    /\ tokenCancelled = [i \in Ids |-> FALSE]
    /\ role = [i \in Ids |-> "none"]
    /\ owner = [i \in Ids |-> NoHandle]
    /\ relCalled = [i \in Ids |-> FALSE]
    /\ nextId = 1
    /\ cancels = 0
    /\ last = [op |-> "init", id |-> NoHandle, err |-> "none"]

\* The initial state: a fresh lock, and a queue constructed without iterable.
Init == ReaderWriterLockInit /\ AsyncQueue(Missing)

\* Bookkeeping shared by the four requests: request r of role k, made on
\* upgradeable handle o (NoHandle unless k is "upgrade") with token tok.
NewRequest(r, k, o, tok) ==
    /\ role' = [role EXCEPT ![r] = k]
    /\ owner' = [owner EXCEPT ![r] = o]
    /\ tokenCancelled' = [tokenCancelled EXCEPT ![r] = (tok = "cancelled")]
    /\ nextId' = r + 1
    /\ tok = "cancelled" => r + cancels < MaxOps
    /\ cancels' = IF tok = "cancelled" THEN cancels + 1 ELSE cancels
    /\ UNCHANGED <<released, relCalled, qvars>>

\* A token check that never raises.
throwIfCancellationRequested_Never(tok) == FALSE

\* token.throwIfCancellationRequested(): TRUE when it raises, which rejects
\* the promise under construction.
throwIfCancellationRequested(tok) == tok = "cancelled"

\* read(token)
Read(tok) ==
    /\ nextId + cancels <= MaxOps
    /\ LET r == nextId
           s == NewPromise(Lock, r)
       IN  /\ NewRequest(r, "read", NoHandle, tok)
           /\ IF throwIfCancellationRequested(tok)
              THEN /\ SetLock(Reject(s, r))
                   /\ last' = [op |-> "read", id |-> r, err |-> "cancelled"]
              ELSE /\ last' = [op |-> "read", id |-> r, err |-> "none"]
                   /\ IF canTakeReadLock(s)
                      THEN SetLock(Resolve(takeReadLock(s, r), r))
                      ELSE SetLock([s EXCEPT !.readers = Append(@, r),
                                             !.registered[r] = TRUE])

\* upgradeableRead(token)
UpgradeableRead(tok) ==
    /\ nextId + cancels <= MaxOps
    /\ LET r == nextId
           s == NewPromise(Lock, r)
       IN  /\ NewRequest(r, "upgradeable", NoHandle, tok)
           /\ IF throwIfCancellationRequested(tok)
              THEN /\ SetLock(Reject(s, r))
                   /\ last' = [op |-> "upgradeableRead", id |-> r, err |-> "cancelled"]
              ELSE /\ last' = [op |-> "upgradeableRead", id |-> r, err |-> "none"]
                   /\ IF canTakeUpgradeableReadLock(s)
                      THEN SetLock(Resolve(takeUpgradeableReadLock(s, r), r))
                      ELSE SetLock([s EXCEPT !.upgradeables = Append(@, r),
                                             !.registered[r] = TRUE])

\* write(token)
Write(tok) ==
    /\ nextId + cancels <= MaxOps
    /\ LET r == nextId
           s == NewPromise(Lock, r)
       IN  /\ NewRequest(r, "write", NoHandle, tok)
           /\ IF throwIfCancellationRequested(tok)
              THEN /\ SetLock(Reject(s, r))
                   /\ last' = [op |-> "write", id |-> r, err |-> "cancelled"]
              ELSE /\ last' = [op |-> "write", id |-> r, err |-> "none"]
                   /\ IF canTakeWriteLock(s)
                      THEN SetLock(Resolve(takeWriteLock(s, r), r))
                      ELSE SetLock([s EXCEPT !.writers = Append(@, r),
                                             !.registered[r] = TRUE])

\* The handles a caller can hold: those of resolved requests.
HandlesOf(k) == {h \in Ids : role[h] = k /\ deferred[h] = "resolved"}

\* hold.upgrade(token) on upgradeable handle h, and _upgrade(token).
Upgrade(h, tok) ==
    /\ h \in HandlesOf("upgradeable")
    /\ IF ~IsCurrentUpgradeable(Lock, h)
       THEN /\ last' = [op |-> "upgrade", id |-> h, err |-> "released"]
            /\ UNCHANGED <<lockvars, deferred, registered, released, tokenCancelled,
                           role, owner, relCalled, nextId, cancels, qvars>>
       ELSE /\ nextId + cancels <= MaxOps
            /\ LET r == nextId
                   s == NewPromise(Lock, r)
               IN  /\ NewRequest(r, "upgrade", h, tok)
                   /\ IF throwIfCancellationRequested(tok)
                      THEN /\ SetLock(Reject(s, r))
                           /\ last' = [op |-> "upgrade", id |-> r, err |-> "cancelled"]
                      ELSE /\ last' = [op |-> "upgrade", id |-> r, err |-> "none"]
                           /\ IF canTakeUpgradeLock(s)
                              THEN SetLock(Resolve(takeUpgradeLock(s, r), r))
                              ELSE SetLock([s EXCEPT !.upgrades = Append(@, r),
                                                     !.registered[r] = TRUE])

\* release() on read handle h
ReleaseRead(h) ==
    /\ h \in HandlesOf("read")
    /\ relCalled' = [relCalled EXCEPT ![h] = TRUE]
    /\ UNCHANGED <<tokenCancelled, role, owner, nextId, cancels, qvars>>
    /\ IF HandleReleased(h)
       THEN /\ last' = [op |-> "releaseRead", id |-> h, err |-> "released"]
            /\ UNCHANGED <<lockvars, deferred, registered, released>>
       ELSE /\ last' = [op |-> "releaseRead", id |-> h, err |-> "none"]
            /\ released' = [released EXCEPT ![h] = TRUE]
            /\ SetLock(releaseReadLock(Lock))

\* release() on write handle h
ReleaseWrite(h) ==
    /\ h \in HandlesOf("write")
    /\ relCalled' = [relCalled EXCEPT ![h] = TRUE]
    /\ UNCHANGED <<tokenCancelled, role, owner, nextId, cancels, qvars>>
    /\ IF HandleReleased(h)
       THEN /\ last' = [op |-> "releaseWrite", id |-> h, err |-> "released"]
            /\ UNCHANGED <<lockvars, deferred, registered, released>>
       ELSE /\ last' = [op |-> "releaseWrite", id |-> h, err |-> "none"]
            /\ released' = [released EXCEPT ![h] = TRUE]
            /\ SetLock(releaseWriteLock(Lock))

\* release() on upgradeable handle h
ReleaseUpgradeable(h) ==
    /\ h \in HandlesOf("upgradeable")
    /\ relCalled' = [relCalled EXCEPT ![h] = TRUE]
    /\ UNCHANGED <<released, tokenCancelled, role, owner, nextId, cancels, qvars>>
    /\ IF ~IsCurrentUpgradeable(Lock, h)
       THEN /\ last' = [op |-> "releaseUpgradeable", id |-> h, err |-> "released"]
            /\ UNCHANGED <<lockvars, deferred, registered>>
       ELSE /\ last' = [op |-> "releaseUpgradeable", id |-> h, err |-> "none"]
            /\ SetLock(releaseUpgradeableReadLock(Lock))

\* release() on upgrade handle h
ReleaseUpgrade(h) ==
    /\ h \in HandlesOf("upgrade")
    /\ relCalled' = [relCalled EXCEPT ![h] = TRUE]
    /\ UNCHANGED <<released, tokenCancelled, role, owner, nextId, cancels, qvars>>
    /\ IF ~IsCurrentUpgraded(Lock, h)
       THEN /\ last' = [op |-> "releaseUpgrade", id |-> h, err |-> "released"]
            /\ UNCHANGED <<lockvars, deferred, registered>>
       ELSE /\ last' = [op |-> "releaseUpgrade", id |-> h, err |-> "none"]
            /\ SetLock(releaseUpgradeLock(Lock))

\* The source of request r's token is cancelled: the token's registered
\* callbacks run synchronously.
Cancel(r) ==
    /\ r \in Ids
    /\ r < nextId
    /\ ~tokenCancelled[r]
    /\ (nextId - 1) + cancels < MaxOps
    /\ cancels' = cancels + 1
    /\ tokenCancelled' = [tokenCancelled EXCEPT ![r] = TRUE]
    /\ last' = [op |-> "cancel", id |-> r, err |-> "none"]
    /\ IF registered[r]
       THEN SetLock(CancellationCallback(Lock, r))
       ELSE UNCHANGED <<lockvars, deferred, registered>>
    /\ UNCHANGED <<released, role, owner, relCalled, nextId, qvars>>

Next ==
    \/ \E tok \in Tokens : Read(tok)
    \/ \E tok \in Tokens : UpgradeableRead(tok)
    \/ \E tok \in Tokens : Write(tok)
    \/ \E h \in Ids, tok \in Tokens : Upgrade(h, tok)
    \/ \E h \in Ids : ReleaseRead(h)
    \/ \E h \in Ids : ReleaseWrite(h)
    \/ \E h \in Ids : ReleaseUpgradeable(h)
    \/ \E h \in Ids : ReleaseUpgrade(h)
    \/ \E r \in Ids : Cancel(r)

Spec == Init /\ [][Next]_vars

----------------------------------------------------------------------------
\* The AsyncQueue machine.

\* A queue constructed with any iterable, or with none.
QInit == ReaderWriterLockInit /\ \E iterable \in Iterables : AsyncQueue(iterable)

\* queue.put(value)
Put(value) ==
    /\ Len(puts) + Len(results) < MaxQueueOps
    /\ SetQueue(put(Queue, value))
    /\ puts' = Append(puts, value)
    /\ UNCHANGED rwvars

\* queue.get()
Get ==
    /\ Len(puts) + Len(results) < MaxQueueOps
    /\ SetQueue(get(Queue))
    /\ UNCHANGED <<puts, rwvars>>

QNext ==
    \/ \E value \in Values : Put(value)
    \/ Get

QSpec == QInit /\ [][QNext]_vars
----------------------------------------------------------------------------
\* Vocabulary of the properties.

\* Request r is parked on the queue of its role.
Parked(r) ==
    \/ InSeq(readers, r)
    \/ InSeq(upgradeables, r)
    \/ InSeq(upgrades, r)
    \/ InSeq(writers, r)

\* Handle h has been granted and is not released: a read or write handle
\* until its released flag is set, an upgradeable or upgrade handle while
\* it is the lock's current one.
Held(h) ==
    /\ deferred[h] = "resolved"
    /\ \/ role[h] \in {"read", "write"} /\ ~released[h]
       \/ role[h] = "upgradeable" /\ upgradeable = h
       \/ role[h] = "upgrade" /\ upgraded = h

\* q without r, the others in their order.
SeqMinus(q, r) == SelectSeq(q, LAMBDA x : x # r)

ReleaseOps == {"releaseRead", "releaseWrite", "releaseUpgradeable", "releaseUpgrade"}

\* The step was a successful call of one of ops.
Ran(ops) == last'.op \in ops /\ last'.err = "none" /\ vars' # vars

\* C1. Exclusivity: while a write or upgrade handle is held, no other handle
\* is held, except the upgradeable handle the upgrade was requested on.
Exclusivity ==
    \A e \in Ids :
        (role[e] \in {"write", "upgrade"} /\ Held(e)) =>
            \A h \in Ids \ {e} :
                Held(h) => (role[e] = "upgrade" /\ h = owner[e])

\* C2. Writer non-starvation: while a write request is parked on the writers
\* queue, no read request made after it has been granted.
WriterNonStarvation ==
    \A w \in Ids, r \in Ids :
        (InSeq(writers, w) /\ role[r] = "read" /\ r > w) => deferred[r] # "resolved"

\* A read request arrived behind a parked writer and was parked.
WriterNonStarvationWitness ==
    \E w \in Ids, r \in Ids :
        InSeq(writers, w) /\ r > w /\ InSeq(readers, r) /\ last.op = "read"

\* C3. Upgrade eventual admission: when the current upgradeable holder has an
\* upgrade parked, the release that leaves it the sole holder grants that
\* upgrade in the same step, and grants no parked read or write.
UpgradeAdmission ==
    [][ ( /\ upgradeable # NoHandle
          /\ \E u \in Ids : InSeq(upgrades, u) /\ owner[u] = upgradeable
          /\ \/ Ran({"releaseRead"}) /\ count = 2
             \/ Ran({"releaseUpgrade"}) )
        => ( /\ count' = -1
             /\ upgraded' # NoHandle
             /\ owner[upgraded'] = upgradeable
             /\ upgradeable' = upgradeable
             /\ \A x \in Ids : (role[x] \in {"read", "write"} /\ deferred[x] = "pending")
                                  => deferred'[x] = "pending" ) ]_vars

\* C4. Writer before waiting readers: a write release with readers and a
\* writer parked grants the head writer in that step, and no parked reader
\* is granted while a write handle stays held.
WriterBeforeWaitingReaders ==
    [][ /\ (Ran({"releaseWrite"}) /\ readers # <<>> /\ writers # <<>>)
            => ( /\ deferred'[Head(writers)] = "resolved"
                 /\ count' = -1
                 /\ writers' = Tail(writers)
                 /\ readers' = readers
                 /\ \A r \in Ids : InSeq(readers, r) => deferred'[r] = "pending" )
        /\ \A w \in Ids :
              (role[w] = "write" /\ Held(w) /\ Held(w)')
                 => \A r \in Ids : InSeq(readers, r) => deferred'[r] # "resolved" ]_vars

\* A writer released with readers parked, and the parked writer holds the
\* lock while the readers still wait.
WriterBeforeWaitingReadersWitness ==
    /\ last.op = "releaseWrite" /\ last.err = "none"
    /\ readers # <<>>
    /\ \E w \in Ids : w # last.id /\ role[w] = "write" /\ Held(w)
    /\ count = -1

\* C5. Per-role FIFO: no request has been granted while an earlier request
\* of the same role is still parked.
PerRoleFIFO ==
    \A a \in Ids, b \in Ids :
        (a < b /\ role[a] = role[b] /\ Parked(a)) => deferred[b] # "resolved"

\* C6. Cancellation excises exactly one waiter: cancelling removes the
\* request from its queue and rejects it, changes nothing else, a rejected
\* request is on no queue afterwards, and cancelling a settled request
\* changes nothing.
CancellationExcisesOneWaiter ==
    [][ /\ Ran({"cancel"}) =>
            LET r == last'.id
            IN  /\ count' = count
                /\ upgradeable' = upgradeable
                /\ upgraded' = upgraded
                /\ readers' = SeqMinus(readers, r)
                /\ upgradeables' = SeqMinus(upgradeables, r)
                /\ upgrades' = SeqMinus(upgrades, r)
                /\ writers' = SeqMinus(writers, r)
                /\ released' = released
                /\ \A x \in Ids \ {r} : deferred'[x] = deferred[x]
                /\ deferred'[r] = IF Parked(r) THEN "rejected" ELSE deferred[r]
        /\ \A x \in Ids : deferred'[x] = "rejected" => ~Parked(x)'
        /\ \A x \in Ids : (tokenCancelled[x] /\ deferred[x] # "resolved")
                             => deferred'[x] # "resolved" ]_vars

\* A parked request was cancelled while another stayed parked, and a
\* release has run since.
CancellationExcisesOneWaiterWitness ==
    /\ \E x \in Ids : deferred[x] = "rejected" /\ registered[x]
    /\ last.op \in ReleaseOps /\ last.err = "none"

\* C7. No lost wakeup: after any call, no queue has a head whose admission
\* predicate holds (for an upgrade: the head was requested on the current
\* upgradeable handle and the upgrade predicate holds).
NoLostWakeup ==
    /\ ~(readers # <<>> /\ canTakeReadLock(Lock))
    /\ ~(upgradeables # <<>> /\ canTakeUpgradeableReadLock(Lock))
    /\ ~(upgrades # <<>> /\ canTakeUpgradeLock(Lock)
            /\ owner[Head(upgrades)] = upgradeable)
    /\ ~(writers # <<>> /\ canTakeWriteLock(Lock))

\* C8 as stated. Single-use handles: the first release on a read, write or
\* upgrade handle succeeds, every later one raises and changes nothing.
SingleUseHandles ==
    [][ (last'.op \in {"releaseRead", "releaseWrite", "releaseUpgrade"} /\ vars' # vars)
        => LET h == last'.id
           IN  IF ~relCalled[h]
               THEN last'.err = "none"
               ELSE /\ last'.err = "released"
                    /\ UNCHANGED <<lockvars, deferred, registered, released>> ]_vars

\* C8 amended. The first release on a read or write handle, or on an upgrade
\* handle that is still the lock's upgraded handle, succeeds; every later
\* release, and every release on an upgrade handle that the release of the
\* upgradeable handle has cleared, raises and changes nothing.
SingleUseHandlesAmended ==
    [][ (last'.op \in {"releaseRead", "releaseWrite", "releaseUpgrade"} /\ vars' # vars)
        => LET h == last'.id
           IN  IF ~relCalled[h] /\ (role[h] = "upgrade" => upgraded = h)
               THEN last'.err = "none"
               ELSE /\ last'.err = "released"
                    /\ UNCHANGED <<lockvars, deferred, registered, released>> ]_vars

\* A read handle was released a second time while others hold the lock or
\* wait for it.
SingleUseHandlesWitness ==
    /\ last.op = "releaseRead" /\ last.err = "released"
    /\ released[last.id]
    /\ count # 0

\* C9. Stale upgradeable handle: upgrade or release on an upgradeable handle
\* that is not the current upgradeable raises, parks nothing and changes
\* nothing.
StaleUpgradeableHandle ==
    [][ \A h \in Ids :
          (role[h] = "upgradeable" /\ deferred[h] = "resolved" /\ upgradeable # h)
          => /\ (last'.op \in {"upgrade", "releaseUpgradeable"} /\ last'.id = h
                   /\ vars' # vars)
                 => /\ last'.err = "released"
                    /\ nextId' = nextId
                    /\ UNCHANGED <<lockvars, deferred, registered, released>>
             /\ \A r \in Ids : (role[r] = "none" /\ role'[r] = "upgrade")
                                  => owner'[r] # h ]_vars

\* A released upgradeable handle was used while a later holder is current.
StaleUpgradeableHandleWitness ==
    /\ last.op \in {"upgrade", "releaseUpgradeable"}
    /\ last.err = "released"
    /\ role[last.id] = "upgradeable"
    /\ upgradeable \notin {NoHandle, last.id}

\* C10. Idle admits everything: with count 0 and neither an upgradeable nor
\* an upgraded handle, a read, upgradeableRead or write with a live token
\* is granted in the call.
IdleAdmitsEverything ==
    [][ ( /\ count = 0 /\ upgradeable = NoHandle /\ upgraded = NoHandle
          /\ Ran({"read", "upgradeableRead", "write"}) )
        => deferred'[last'.id] = "resolved" ]_vars
\* C11. Whenever upgraded is present, upgradeable is present and count is -1.
UpgradedImpliesUpgradeable ==
    upgraded # NoHandle => (upgradeable # NoHandle /\ count = -1)

\* A parked upgrade was granted by the release of the last other reader.
UpgradedImpliesUpgradeableWitness ==
    /\ upgraded # NoHandle
    /\ last.op = "releaseRead" /\ last.err = "none"

\* The requests a step grants.
Woken == {x \in Ids : deferred[x] = "pending" /\ deferred'[x] = "resolved"}

HeldReads == Cardinality({h \in Ids : role[h] = "read" /\ Held(h)})

\* The census a release leaves before it re-schedules.
CountAfterRelease ==
    CASE last'.op = "releaseRead" -> count - 1
      [] last'.op = "releaseWrite" -> 0
      [] last'.op = "releaseUpgradeable" -> IF count = -1 THEN 0 ELSE count - 1
      [] OTHER -> 1

CensusInv ==
    /\ count >= -1
    /\ count >= 0 => count = HeldReads + (IF upgradeable # NoHandle THEN 1 ELSE 0)
    /\ (upgradeable # NoHandle /\ upgraded = NoHandle) => count >= 1

\* C16. Census accuracy: count >= -1; a count >= 0 is the number of held
\* read handles plus one for a current upgradeable handle; upgradeable
\* without upgraded implies count >= 1; a release that empties the readers
\* queue makes every parked reader a holder.
CensusAccuracy ==
    /\ []CensusInv
    /\ [][ (last'.op \in ReleaseOps /\ vars' # vars /\ readers # <<>> /\ readers' = <<>>)
           => /\ \A r \in Ids : InSeq(readers, r) => (Held(r))'
              /\ Cardinality({x \in Woken : role[x] = "read"}) = Len(readers)
              /\ count' = CountAfterRelease + Cardinality(Woken) ]_vars

\* A writer's release woke a batch of at least two readers.
CensusAccuracyWitness ==
    /\ last.op = "releaseWrite" /\ last.err = "none"
    /\ HeldReads >= 2
    /\ count = HeldReads + (IF upgradeable # NoHandle THEN 1 ELSE 0)

\* C17. Lenient release while upgraded: releasing the upgradeable handle
\* at count -1 clears upgradeable and upgraded and re-schedules from
\* count 0; afterwards release on the upgrade handle raises and changes
\* nothing, and no upgrade release moves count while upgradeable is absent.
LenientRelease ==
    [][ /\ (Ran({"releaseUpgradeable"}) /\ count = -1)
            => /\ upgraded' = NoHandle
               /\ upgradeable' # upgradeable
               /\ IF writers # <<>>
                  THEN count' = -1 /\ Woken = {Head(writers)}
                  ELSE /\ count' = Cardinality(Woken)
                       /\ \A x \in Woken : role[x] \in {"read", "upgradeable"}
        /\ (last'.op = "releaseUpgrade" /\ vars' # vars /\ upgraded # last'.id)
            => /\ last'.err = "released"
               /\ UNCHANGED <<lockvars, deferred, registered, released>>
        /\ (last'.op = "releaseUpgrade" /\ upgradeable = NoHandle)
            => count' = count ]_vars

\* The upgradeable handle was released while its upgrade handle, never
\* released, was held; the lock is free.
LenientReleaseWitness ==
    /\ last.op = "releaseUpgradeable" /\ last.err = "none"
    /\ count = 0
    /\ \E u \in Ids : /\ role[u] = "upgrade" /\ deferred[u] = "resolved"
                      /\ ~relCalled[u] /\ owner[u] = last.id

\* C18. Upgrade belongs to its requester: every parked upgrade request and
\* the granted upgrade were requested on the current upgradeable handle.
UpgradeBelongsToRequester ==
    /\ \A u \in Ids : InSeq(upgrades, u) => owner[u] = upgradeable
    /\ upgraded # NoHandle => owner[upgraded] = upgradeable

\* C19. Progress under release fairness, in the form a finite run refutes:
\* when every granted handle has been released, no read, upgradeableRead or
\* write request is left parked.
NoHolderNoWaiter ==
    (\A h \in Ids : ~Held(h))
        => \A r \in Ids : role[r] \in {"read", "upgradeable", "write"} => ~Parked(r)

\* C20. No writer waits on a free lock: count = 0 implies the writers
\* queue is empty.
NoWriterWaitsOnFreeLock == count = 0 => writers = <<>>

\* A release freed the lock after a parked writer had its turn.
NoWriterWaitsOnFreeLockWitness ==
    /\ count = 0
    /\ last.op = "releaseWrite" /\ last.err = "none"
    /\ \E w \in Ids : w # last.id /\ w < last.id /\ role[w] = "write" /\ released[w]

\* C14. Already-cancelled token: a read, upgradeableRead, write or upgrade
\* request made with a cancelled token fails with the cancellation error,
\* whatever the admission predicates say, is neither granted nor parked,
\* and leaves count, upgradeable, upgraded and all four queues unchanged.
AlreadyCancelledToken ==
    [][ \A r \in Ids :
          (role[r] = "none" /\ role'[r] # "none" /\ tokenCancelled'[r])
              => /\ last' = [op |-> last'.op, id |-> r, err |-> "cancelled"]
                 /\ deferred'[r] = "rejected"
                 /\ ~registered'[r]
                 /\ UNCHANGED <<count, upgradeable, upgraded>>
                 /\ UNCHANGED <<readers, upgradeables, upgrades, writers>> ]_vars

\* A request with a cancelled token was refused on an idle lock, where
\* every role's admission predicate other than upgrade holds.
AlreadyCancelledTokenWitness ==
    /\ last.err = "cancelled"
    /\ deferred[last.id] = "rejected"
    /\ count = 0
    /\ writers = <<>> /\ upgrades = <<>>

\* C15. Scheduling short-circuit, as stated: the requests woken by a single
\* release are all of one role.
ReleaseWakesOneRole ==
    [][ last'.op \in ReleaseOps => \A x, y \in Woken : role[x] = role[y] ]_vars

\* C15, amended. The re-schedule run after a release tries one writer, then
\* one upgrade, and stops when either wakes; otherwise it wakes the head
\* upgradeable reader if admissible and then, without stopping, the whole
\* batch of readers if admissible.
ReleaseWakesInOrder ==
    [][ Ran(ReleaseOps) =>
          LET c == CountAfterRelease
              upg == IF last'.op = "releaseUpgradeable" THEN NoHandle ELSE upgradeable
          IN  IF c = 0 /\ writers # <<>>
              THEN Woken = {Head(writers)}
              ELSE IF c = 1 /\ upg # NoHandle /\ upgrades # <<>>
              THEN Woken = {Head(upgrades)}
              ELSE /\ Woken \subseteq
                        {x \in Ids : InSeq(readers, x)} \cup
                        (IF upgradeables # <<>> THEN {Head(upgradeables)} ELSE {})
                   /\ (c >= 0 /\ upg = NoHandle /\ upgradeables # <<>>)
                        => Head(upgradeables) \in Woken
                   /\ (c >= 0 /\ writers = <<>> /\ upgrades = <<>>)
                        => \A x \in Ids : InSeq(readers, x) => x \in Woken ]_vars

\* A writer's release woke an upgradeable reader and a reader together.
ReleaseWakesInOrderWitness ==
    /\ last.op = "releaseWrite" /\ last.err = "none"
    /\ upgradeable # NoHandle
    /\ HeldReads >= 1

\* C12. AsyncQueue FIFO rendezvous: the promise returned by the k-th get
\* holds the k-th value put (initial values first); while fewer than k
\* values have been put it is unsettled.
FIFORendezvous ==
    \A k \in 1 .. Len(results) :
        results[k] = IF k <= Len(puts) THEN puts[k] ELSE Unsettled

\* Both paths were taken with distinguishable values: a get that parked
\* and was settled by a later put, and a get that found a buffered value.
FIFORendezvousWitness ==
    /\ pending.defined /\ available.defined
    /\ Len(results) >= 2
    /\ Len(puts) >= 2
    /\ puts[1] # puts[2]

\* C13. AsyncQueue buffer/waiter exclusion: available and pending are never
\* both non-empty, and size is the number of values put so far (initial
\* values included) minus the number of gets so far.
BufferWaiterExclusion ==
    /\ ~(available.items # <<>> /\ pending.items # <<>>)
    /\ size(Queue) = Len(puts) - Len(results)

\* Consumers are parked on a queue that buffered values before.
BufferWaiterExclusionWitness ==
    /\ available.defined
    /\ size(Queue) <= -2
====
